---- MODULE Spec2Model ----
(***************************************************************************)
(* A model of flask_pw/models.py: the Signal publish/subscribe primitive,   *)
(* the four lifecycle signals every model class carries, Model.save and     *)
(* Model.delete_instance firing them around the host ORM's operations, and  *)
(* the round-robin read-replica selection behind select() and raw().        *)
(*                                                                          *)
(* Two specifications share the variables:                                  *)
(*   Spec      the signals of an instance's class and the instance          *)
(*             lifecycle (connect, disconnect, send, save,                  *)
(*             delete_instance);                                            *)
(*   SpecRead  read dispatch (select, raw, _get_read_database).             *)
(* The two halves of the program share no state, so each specification      *)
(* holds the other half's variables at their value after class creation.    *)
(* Further specifications look at one part more closely:                    *)
(*   SpecSignal  one signal with a longer receivers list;                   *)
(*   SpecGet     get_or_none beside select;                                 *)
(*   SpecChoices the Choices helper, built from any short argument list;    *)
(*   SpecConc    two threads in _get_read_database, one line at a time;     *)
(*   SpecClasses connect and disconnect on every signal of every class;     *)
(*   SpecReentrant send to receivers that disconnect while they are called. *)
(***************************************************************************)
EXTENDS Integers, Sequences, FiniteSets, TLC

VARIABLES
    receivers,    \* [class][signal] : Signal.receivers, a list
    pk,           \* [instance] : the instance's primary-key value
    persisted,    \* [instance] : a base ORM save of this instance has succeeded
    read_slaves,  \* [class] : cls._meta.read_slaves after class creation
    read_slave_idx, \* [class] : the class's own _read_slave_idx attribute, <<>> when unset
    reads,        \* [class] : the read dispatches made on the class so far
    frames,       \* [thread] : the locals of a _get_read_database call in flight
    registry,     \* a Choices object: its _choices list and _reversed dict
    last          \* the latest call: what was called, what it did, how it ended

vars == <<receivers, pk, persisted, read_slaves, read_slave_idx, reads, frames,
          registry, last>>

----------------------------------------------------------------------------
(* Bounds of the model.                                                     *)

\* The most receivers registered at one time, summed over all signals.
MaxReceivers == 2

\* The most read dispatches made on one class.
MaxDispatch == 4

\* The most receivers on the one signal of SpecSignal.
MaxLen == 3

\* The most choices handed to Choices.
MaxChoices == 2

\* The most calls of _get_read_database made by the threads of SpecConc.
MaxCalls == 3

----------------------------------------------------------------------------
(* The universe: two model classes, Child a subclass of Parent, and one     *)
(* instance, of class Child.                                                *)

Classes == {"Parent", "Child"}

\* The base classes of a class, nearest first (the method resolution order
\* without the class itself).
Bases(cls) == IF cls = "Child" THEN <<"Parent">> ELSE <<>>

Instances == {"a"}

ClassOf(inst) == "Child"

SignalNames == {"pre_save", "post_save", "pre_delete", "post_delete"}

\* Objects a caller may hand to connect and disconnect. r1 and r2 return
\* normally, boom raises when invoked, notfn is not callable.
Callables == {"r1", "r2", "boom"}

Objects == Callables \cup {"notfn"}

\* Receivers that change the registration when they are invoked: quit
\* disconnects itself, evict disconnects r1.
Reentrant == {"quit", "evict"}

callable(x) == x \in Callables \cup Reentrant

Raises(receiver) == receiver = "boom"

\* Primary-key values: unbound (None), the integers 0 and 1, the empty string.
NoPk == <<"none">>

PkValues == {NoPk, <<"int", 0>>, <<"int", 1>>, <<"str", "">>}

\* The key the database assigns to a row inserted without one.
AssignedPk == <<"int", 1>>

\* Python's bool() of a primary-key value.
bool(v) ==
    CASE v[1] = "none" -> FALSE
      [] v[1] = "int" -> v[2] # 0
      [] v[1] = "str" -> v[2] # ""

----------------------------------------------------------------------------
(* The record of a call. trace lists, in order, every signal fired, every   *)
(* receiver invoked, every base ORM operation attempted and every raise;    *)
(* again says that a save was made on an instance already saved once.       *)

Ev(kind, sig, who, inst, ctx) ==
    [kind |-> kind, sig |-> sig, who |-> who, inst |-> inst, ctx |-> ctx]

Call(op) ==
    [op |-> op, cls |-> "-", sig |-> "-", arg |-> "-", force |-> FALSE,
     again |-> FALSE, created |-> <<>>, trace |-> <<>>, exc |-> "none",
     sql |-> <<>>, db |-> "-", cur |-> <<>>, result |-> "-"]

\* The keyword context of a save signal, and of a signal sent without one.
Created(flag) == <<flag>>

NoCtx == <<>>

----------------------------------------------------------------------------
(* class Choices                                                            *)

\* Python values: strings and integers.
PyStr(s) == <<"str", s>>

PyInt(n) == <<"int", n>>

\* A choice given as a (stored value, display label) pair.
Pair(value, label) == <<"pair", value, label>>

\* The arguments a caller may hand to Choices: bare strings and pairs, some
\* with labels that clash, as written or once turned into strings, and one
\* named like an attribute every Choices object has.
ChoiceArgs ==
    {PyStr("a"), PyStr("b"), PyStr("_choices"),
     Pair(PyStr("x"), PyStr("a")), Pair(PyStr("y"), PyStr("a")),
     Pair(PyStr("x"), PyInt(1)), Pair(PyStr("y"), PyStr("1"))}

\* The names a caller may look up.
Names == {"a", "b", "1", "_choices", "zz"}

\* isinstance(choice, string_types)
isinstance_string(choice) == choice[1] = "str"

\* str() of a string or of an integer from 0 to 9.
Digits == <<"0", "1", "2", "3", "4", "5", "6", "7", "8", "9">>

str(v) == IF v[1] = "str" THEN v[2] ELSE Digits[v[2] + 1]

\* dict[key] = value
setitem(dict, key, value) ==
    [k \in DOMAIN dict \cup {key} |-> IF k = key THEN value ELSE dict[k]]

\* A faulty loop that keeps the first value stored under a key.
RECURSIVE InitLoopFirstWins(_, _, _, _)
InitLoopFirstWins(args, i, list, dict) ==
    IF i > Len(args) THEN [_choices |-> list, _reversed |-> dict]
    ELSE LET choice == IF isinstance_string(args[i]) THEN Pair(args[i], args[i])
                       ELSE args[i]
             key == str(choice[3])
         IN  InitLoopFirstWins(args, i + 1, Append(list, choice),
                               IF key \in DOMAIN dict THEN dict
                               ELSE setitem(dict, key, choice[2]))

\* A faulty loop that stores each choice as it was given.
RECURSIVE InitLoopAsGiven(_, _, _, _)
InitLoopAsGiven(args, i, list, dict) ==
    IF i > Len(args) THEN [_choices |-> list, _reversed |-> dict]
    ELSE LET choice == IF isinstance_string(args[i]) THEN Pair(args[i], args[i])
                       ELSE args[i]
         IN  InitLoopAsGiven(args, i + 1, Append(list, args[i]),
                             setitem(dict, str(choice[3]), choice[2]))

\* The for loop of Choices.__init__ from argument i on.
RECURSIVE InitLoop(_, _, _, _)
InitLoop(args, i, list, dict) ==
    IF i > Len(args) THEN [_choices |-> list, _reversed |-> dict]
    ELSE LET choice == IF isinstance_string(args[i]) THEN Pair(args[i], args[i])
                       ELSE args[i]
         IN  InitLoop(args, i + 1, Append(list, choice),
                      setitem(dict, str(choice[3]), choice[2]))

__init___first_wins(args) == InitLoopFirstWins(args, 1, <<>>, <<>>)

__init___as_given(args) == InitLoopAsGiven(args, 1, <<>>, <<>>)

\* Choices.__init__: [_choices, _reversed]
__init__(args) == InitLoop(args, 1, <<>>, <<>>)

\* The attributes normal lookup finds on a Choices object, so that
\* __getattr__ is not called for them; one method stands for them all.
OwnAttributes == {"_choices", "_reversed", "__iter__"}

Attribute(name) == <<"attribute", name>>

\* Choices.__getattr__ with the default None.
__getattr__(obj, name) ==
    IF name \in DOMAIN obj._reversed THEN obj._reversed[name] ELSE <<"none">>

\* obj.<name>: normal attribute lookup, then __getattr__.
getattr(obj, name) ==
    IF name \in OwnAttributes THEN Attribute(name) ELSE __getattr__(obj, name)

\* Choices.__iter__: the items a fresh iterator yields.
__iter__(obj) == obj._choices

----------------------------------------------------------------------------
(* class Signal                                                             *)

\* Signal.__init__
NewSignal == <<>>

\* A faulty remove that takes out the last occurrence of x.
RECURSIVE remove_last(_, _)
remove_last(list, x) ==
    IF list = <<>> THEN <<>>
    ELSE IF list[Len(list)] = x THEN SubSeq(list, 1, Len(list) - 1)
    ELSE Append(remove_last(SubSeq(list, 1, Len(list) - 1), x), list[Len(list)])

\* list.remove(x): the list without the first occurrence of x.
RECURSIVE remove(_, _)
remove(list, x) ==
    IF list = <<>> THEN <<>>
    ELSE IF Head(list) = x THEN Tail(list)
    ELSE <<Head(list)>> \o remove(Tail(list), x)

InList(list, x) == \E i \in 1..Len(list) : list[i] = x

\* A faulty connect that appends whatever it is given.
connect_unchecked(list, receiver) ==
    [receivers |-> Append(list, receiver), exc |-> "none"]

\* Signal.connect: [receivers, exc]
connect(list, receiver) ==
    IF ~callable(receiver)
    THEN [receivers |-> list, exc |-> "ValueError"]
    ELSE [receivers |-> Append(list, receiver), exc |-> "none"]

\* Signal.disconnect: [receivers, exc]
disconnect(list, receiver) ==
    IF ~InList(list, receiver)
    THEN [receivers |-> list, exc |-> "ValueError"]
    ELSE [receivers |-> remove(list, receiver), exc |-> "none"]

\* The for loop of Signal.send from position i on: [trace, raised]
RECURSIVE SendLoop(_, _, _, _, _)
SendLoop(list, i, sig, inst, ctx) ==
    IF i > Len(list) THEN [trace |-> <<>>, raised |-> FALSE]
    ELSE LET receiver == list[i]
             call == Ev("call", sig, receiver, inst, ctx)
         IN  IF Raises(receiver)
             THEN [trace |-> <<call, Ev("raise", sig, receiver, inst, ctx)>>,
                   raised |-> TRUE]
             ELSE LET rest == SendLoop(list, i + 1, sig, inst, ctx)
                  IN  [trace |-> <<call>> \o rest.trace, raised |-> rest.raised]

\* The list back to front.
Reverse(list) == [i \in 1..Len(list) |-> list[Len(list) + 1 - i]]

\* A faulty send that walks the receivers from the newest to the oldest.
send_reversed(list, sig, inst, ctx) ==
    LET loop == SendLoop(Reverse(list), 1, sig, inst, ctx)
    IN  [trace |-> <<Ev("fire", sig, "-", inst, ctx)>> \o loop.trace,
         raised |-> loop.raised]

\* A faulty send that shields the receivers from one another: every receiver
\* is invoked, and a raise is reported only after the last one.
RECURSIVE SendLoopIsolating(_, _, _, _, _)
SendLoopIsolating(list, i, sig, inst, ctx) ==
    IF i > Len(list) THEN [trace |-> <<>>, raised |-> FALSE]
    ELSE LET receiver == list[i]
             call == Ev("call", sig, receiver, inst, ctx)
             rest == SendLoopIsolating(list, i + 1, sig, inst, ctx)
         IN  IF Raises(receiver)
             THEN [trace |-> <<call, Ev("raise", sig, receiver, inst, ctx)>>
                             \o rest.trace,
                   raised |-> TRUE]
             ELSE [trace |-> <<call>> \o rest.trace, raised |-> rest.raised]

send_isolating(list, sig, inst, ctx) ==
    LET loop == SendLoopIsolating(list, 1, sig, inst, ctx)
    IN  [trace |-> <<Ev("fire", sig, "-", inst, ctx)>> \o loop.trace,
         raised |-> loop.raised]

\* Signal.send: [trace, raised]
send(list, sig, inst, ctx) ==
    LET loop == SendLoop(list, 1, sig, inst, ctx)
    IN  [trace |-> <<Ev("fire", sig, "-", inst, ctx)>> \o loop.trace,
         raised |-> loop.raised]

\* What invoking a receiver does to the list it is registered on:
\* [receivers, exc], exc being what the receiver raises.
Invoke(receiver, list) ==
    IF receiver = "quit" THEN disconnect(list, "quit")
    ELSE IF receiver = "evict" THEN disconnect(list, "r1")
    ELSE [receivers |-> list, exc |-> IF Raises(receiver) THEN "ReceiverError"
                                      ELSE "none"]

\* The for loop of Signal.send over the list as it stands at each step: the
\* iterator keeps a position, stops when the position is past the end, and
\* takes whatever is at the position now: [trace, raised, receivers]
RECURSIVE SendLoopLive(_, _, _, _, _)
SendLoopLive(list, i, sig, inst, ctx) ==
    IF i > Len(list) THEN [trace |-> <<>>, raised |-> FALSE, receivers |-> list]
    ELSE LET receiver == list[i]
             call == Ev("call", sig, receiver, inst, ctx)
             after == Invoke(receiver, list)
         IN  IF after.exc # "none"
             THEN [trace |-> <<call, Ev("raise", sig, receiver, inst, ctx)>>,
                   raised |-> TRUE, receivers |-> after.receivers]
             ELSE LET rest == SendLoopLive(after.receivers, i + 1, sig, inst, ctx)
                  IN  [trace |-> <<call>> \o rest.trace, raised |-> rest.raised,
                       receivers |-> rest.receivers]

\* Signal.send when receivers may connect or disconnect during delivery.
send_live(list, sig, inst, ctx) ==
    LET loop == SendLoopLive(list, 1, sig, inst, ctx)
    IN  [trace |-> <<Ev("fire", sig, "-", inst, ctx)>> \o loop.trace,
         raised |-> loop.raised, receivers |-> loop.receivers]

----------------------------------------------------------------------------
(* class BaseSignalModel                                                    *)

\* BaseSignalModel.__new__: the four signals of a new class.
NewSignals == [s \in SignalNames |-> NewSignal]

\* A faulty class creation that leaves a subclass with the Signal objects of
\* its base class.
SignalOf_inherited(cls, sig) ==
    IF Bases(cls) = <<>> THEN <<cls, sig>> ELSE <<Bases(cls)[1], sig>>

\* The Signal object that cls.<sig> denotes, named by the class it was made
\* for: lines 89-92 give every class its own four.
SignalOf(cls, sig) == <<cls, sig>>

\* BaseSignalModel.__new__, line 97: getattr(cls._meta, 'read_slaves', None).
\* A class declares no read_slaves (absent) or a list of replica handles.
None == <<"none">>

Absent == <<"absent">>

ListOf(seq) == <<"list", seq>>

Declarations ==
    {Absent, ListOf(<<>>), ListOf(<<"A">>), ListOf(<<"A", "B">>),
     ListOf(<<"A", "B", "C">>)}

NormalizeReadSlaves(declared) == IF declared = Absent THEN None ELSE declared

\* Python's "not x" for None or a list.
not(x) == x[1] = "none" \/ Len(x[2]) = 0

----------------------------------------------------------------------------
(* class Model: save and delete_instance                                    *)

\* A faulty created that ignores force_insert.
created_from_pk_only(pkv, force_insert) == ~bool(pkv)

\* Model.save, line 132
created(pkv, force_insert) == force_insert \/ ~bool(pkv)

\* The host ORM's save, called at line 134: it raises, or it writes the row
\* and binds the key the database assigned when the instance had none.
BaseSave(pkv, inst, force_insert, fails) ==
    IF fails
    THEN [trace |-> <<Ev("base_save", "-", "-", inst, NoCtx),
                      Ev("raise", "-", "orm", inst, NoCtx)>>,
          raised |-> TRUE, pk |-> pkv]
    ELSE [trace |-> <<Ev("base_save", "-", "-", inst, NoCtx)>>,
          raised |-> FALSE,
          pk |-> IF pkv = NoPk THEN AssignedPk ELSE pkv]

\* The host ORM's delete_instance, called at line 140.
BaseDelete(inst, fails) ==
    IF fails
    THEN [trace |-> <<Ev("base_delete", "-", "-", inst, NoCtx),
                      Ev("raise", "-", "orm", inst, NoCtx)>>,
          raised |-> TRUE]
    ELSE [trace |-> <<Ev("base_delete", "-", "-", inst, NoCtx)>>,
          raised |-> FALSE]

\* A faulty save that works out created afresh for post_save, after the base
\* save has bound the key.
save_recomputing_created(signals, pkv, inst, force_insert, base_fails) ==
    LET flag == created(pkv, force_insert)
        pre == send(signals["pre_save"], "pre_save", inst, Created(flag))
    IN  IF pre.raised
        THEN [created |-> flag, trace |-> pre.trace, exc |-> "ReceiverError",
              pk |-> pkv, saved |-> FALSE]
        ELSE
        LET base == BaseSave(pkv, inst, force_insert, base_fails)
        IN  IF base.raised
            THEN [created |-> flag, trace |-> pre.trace \o base.trace,
                  exc |-> "OrmError", pk |-> pkv, saved |-> FALSE]
            ELSE
            LET post == send(signals["post_save"], "post_save", inst,
                             Created(created(base.pk, force_insert)))
            IN  [created |-> flag,
                 trace |-> pre.trace \o base.trace \o post.trace,
                 exc |-> IF post.raised THEN "ReceiverError" ELSE "none",
                 pk |-> base.pk, saved |-> TRUE]

\* A faulty save that carries on after a failure: whatever raised, the base
\* save and post_save still run, and the first error is reported at the end.
save_carrying_on(signals, pkv, inst, force_insert, base_fails) ==
    LET flag == created(pkv, force_insert)
        pre == send(signals["pre_save"], "pre_save", inst, Created(flag))
        base == BaseSave(pkv, inst, force_insert, base_fails)
        post == send(signals["post_save"], "post_save", inst, Created(flag))
    IN  [created |-> flag,
         trace |-> pre.trace \o base.trace \o post.trace,
         exc |-> IF pre.raised \/ post.raised THEN "ReceiverError"
                 ELSE IF base.raised THEN "OrmError" ELSE "none",
         pk |-> base.pk, saved |-> ~base.raised]

\* Model.save: [created, trace, exc, pk, saved]
save(signals, pkv, inst, force_insert, base_fails) ==
    LET flag == created(pkv, force_insert)
        pre == send(signals["pre_save"], "pre_save", inst, Created(flag))
    IN  IF pre.raised
        THEN [created |-> flag, trace |-> pre.trace, exc |-> "ReceiverError",
              pk |-> pkv, saved |-> FALSE]
        ELSE
        LET base == BaseSave(pkv, inst, force_insert, base_fails)
        IN  IF base.raised
            THEN [created |-> flag, trace |-> pre.trace \o base.trace,
                  exc |-> "OrmError", pk |-> pkv, saved |-> FALSE]
            ELSE
            LET post == send(signals["post_save"], "post_save", inst, Created(flag))
            IN  [created |-> flag,
                 trace |-> pre.trace \o base.trace \o post.trace,
                 exc |-> IF post.raised THEN "ReceiverError" ELSE "none",
                 pk |-> base.pk, saved |-> TRUE]

\* A faulty delete_instance that fires post_delete before the base delete.
delete_instance_post_first(signals, inst, base_fails) ==
    LET pre == send(signals["pre_delete"], "pre_delete", inst, NoCtx)
    IN  IF pre.raised
        THEN [trace |-> pre.trace, exc |-> "ReceiverError"]
        ELSE
        LET post == send(signals["post_delete"], "post_delete", inst, NoCtx)
        IN  IF post.raised
            THEN [trace |-> pre.trace \o post.trace, exc |-> "ReceiverError"]
            ELSE
            LET base == BaseDelete(inst, base_fails)
            IN  [trace |-> pre.trace \o post.trace \o base.trace,
                 exc |-> IF base.raised THEN "OrmError" ELSE "none"]

\* Model.delete_instance: [trace, exc]
delete_instance(signals, inst, base_fails) ==
    LET pre == send(signals["pre_delete"], "pre_delete", inst, NoCtx)
    IN  IF pre.raised
        THEN [trace |-> pre.trace, exc |-> "ReceiverError"]
        ELSE
        LET base == BaseDelete(inst, base_fails)
        IN  IF base.raised
            THEN [trace |-> pre.trace \o base.trace, exc |-> "OrmError"]
            ELSE
            LET post == send(signals["post_delete"], "post_delete", inst, NoCtx)
            IN  [trace |-> pre.trace \o base.trace \o post.trace,
                 exc |-> IF post.raised THEN "ReceiverError" ELSE "none"]

----------------------------------------------------------------------------
(* class Model: read dispatch                                               *)

\* cls._meta.database
Primary == "primary"

\* The default of getattr(cls, '_read_slave_idx', -1), line 147.
DefaultIdx == -1

\* getattr(cls, '_read_slave_idx', -1): the class's own attribute, else the
\* nearest base class's, else the default.
RECURSIVE LookupIdx(_, _)
LookupIdx(idx, mro) ==
    IF mro = <<>> THEN DefaultIdx
    ELSE IF idx[Head(mro)] # <<>> THEN idx[Head(mro)][1]
    ELSE LookupIdx(idx, Tail(mro))

getattr_read_slave_idx(idx, cls) == LookupIdx(idx, <<cls>> \o Bases(cls))

\* A faulty _get_read_database that never stores the advanced cursor.
_get_read_database_not_stored(slaves, idx, cls) ==
    IF not(slaves[cls])
    THEN [db |-> Primary, idx |-> idx, cur |-> <<>>, routed |-> TRUE]
    ELSE LET current_idx == getattr_read_slave_idx(idx, cls)
             list == slaves[cls][2]
         IN  [db |-> list[((current_idx + 1) % Len(list)) + 1], idx |-> idx,
              cur |-> <<current_idx>>, routed |-> TRUE]

\* A faulty _get_read_database that advances the cursor before it looks for
\* replicas.
_get_read_database_advancing_first(slaves, idx, cls) ==
    LET current_idx == getattr_read_slave_idx(idx, cls)
    IN  IF not(slaves[cls])
        THEN [db |-> Primary, idx |-> [idx EXCEPT ![cls] = <<current_idx + 1>>],
              cur |-> <<>>, routed |-> TRUE]
        ELSE LET list == slaves[cls][2]
                 new == [idx EXCEPT ![cls] = <<(current_idx + 1) % Len(list)>>]
             IN  [db |-> list[new[cls][1] + 1], idx |-> new,
                  cur |-> <<current_idx>>, routed |-> TRUE]

\* Model._get_read_database: [db, idx, cur, routed]: the database returned,
\* the cursors afterwards, the cursor value read (<<>> when none was), and
\* that the call was made.
_get_read_database(slaves, idx, cls) ==
    IF not(slaves[cls])
    THEN [db |-> Primary, idx |-> idx, cur |-> <<>>, routed |-> TRUE]
    ELSE LET current_idx == getattr_read_slave_idx(idx, cls)
             list == slaves[cls][2]
             new == [idx EXCEPT ![cls] = <<(current_idx + 1) % Len(list)>>]
         IN  [db |-> list[new[cls][1] + 1], idx |-> new, cur |-> <<current_idx>>,
              routed |-> TRUE]

\* list[i] with Python's indexing: 0..n-1 from the front, -n..-1 from the
\* back, IndexError otherwise.
getitem(list, i) ==
    IF 0 <= i /\ i < Len(list) THEN list[i + 1]
    ELSE IF -Len(list) <= i /\ i < 0 THEN list[Len(list) + i + 1]
    ELSE "IndexError"

\* A faulty line 148 that advances whatever cursor it finds when it writes.
store_idx_fresh(slaves, idx, cls, current_idx) ==
    [idx EXCEPT ![cls] = <<(getattr_read_slave_idx(idx, cls) + 1) % Len(slaves[cls][2])>>]

\* A faulty line 148 that forgets to wrap.
store_idx_unwrapped(slaves, idx, cls, current_idx) ==
    [idx EXCEPT ![cls] = <<current_idx + 1>>]

\* Line 148: cls._read_slave_idx = (current_idx + 1) % len(cls._meta.read_slaves)
store_idx(slaves, idx, cls, current_idx) ==
    [idx EXCEPT ![cls] = <<(current_idx + 1) % Len(slaves[cls][2])>>]

\* Line 149: [db, at]: cls._meta.read_slaves[cls._read_slave_idx] and the
\* index it was taken at.
return_db(slaves, idx, cls) ==
    LET at == getattr_read_slave_idx(idx, cls)
    IN  [db |-> getitem(slaves[cls][2], at), at |-> <<at>>]

\* SQL text is a sequence of characters.
UpperCase == <<"A", "B", "C", "D", "E", "F", "G", "H", "I", "J", "K", "L", "M",
               "N", "O", "P", "Q", "R", "S", "T", "U", "V", "W", "X", "Y", "Z">>

LowerCase == <<"a", "b", "c", "d", "e", "f", "g", "h", "i", "j", "k", "l", "m",
               "n", "o", "p", "q", "r", "s", "t", "u", "v", "w", "x", "y", "z">>

lower_char(ch) ==
    IF \E i \in 1..26 : UpperCase[i] = ch
    THEN LowerCase[CHOOSE i \in 1..26 : UpperCase[i] = ch]
    ELSE ch

\* str.lower
lower(text) == [i \in 1..Len(text) |-> lower_char(text[i])]

\* str.startswith
startswith(text, prefix) ==
    Len(text) >= Len(prefix) /\ SubSeq(text, 1, Len(prefix)) = prefix

SelectToken == <<"s", "e", "l", "e", "c", "t">>

\* The raw SQL texts callers pass.
SqlTexts ==
    {<<"S", "E", "L", "E", "C", "T", " ", "1">>,
     <<"s", "e", "l", "e", "c", "t", " ", "1">>,
     <<"S", "e", "L", "e", "C", "t", " ", "1">>,
     <<"I", "N", "S", "E", "R", "T", " ", "x">>,
     <<"u", "p", "d", "a", "t", "e", " ", "x">>,
     <<" ", "s", "e", "l", "e", "c", "t">>,
     <<"s", "e", "l", "e", "c">>,
     <<>>}

\* Model.select: the query's database and the cursors after the call.
select(slaves, idx, cls) == _get_read_database(slaves, idx, cls)

\* A faulty raw that compares the text as written, without lowering it.
raw_case_sensitive(slaves, idx, cls, sql) ==
    IF startswith(sql, SelectToken)
    THEN _get_read_database(slaves, idx, cls)
    ELSE [db |-> Primary, idx |-> idx, cur |-> <<>>, routed |-> FALSE]

\* Model.raw: the query's database and the cursors after the call.
raw(slaves, idx, cls, sql) ==
    IF startswith(lower(sql), SelectToken)
    THEN _get_read_database(slaves, idx, cls)
    ELSE [db |-> Primary, idx |-> idx, cur |-> <<>>, routed |-> FALSE]

\* The name of the row-not-found error the host ORM makes for each class.
DoesNotExist(cls) == IF cls = "Child" THEN "ChildDoesNotExist" ELSE "ParentDoesNotExist"

\* What the host ORM's cls.get, called at line 126, does: it returns the
\* row, or raises some class's row-not-found error or another error.
GetOutcomes == {"row", "ChildDoesNotExist", "ParentDoesNotExist", "OperationalError"}

\* A faulty get_or_none that turns every error into None.
get_or_none_catching_all(cls, outcome) ==
    IF outcome = "row"
    THEN [result |-> "row", exc |-> "none"]
    ELSE [result |-> "None", exc |-> "none"]

\* Model.get_or_none: [result, exc]
get_or_none(cls, outcome) ==
    IF outcome = "row"
    THEN [result |-> "row", exc |-> "none"]
    ELSE IF outcome = DoesNotExist(cls)
    THEN [result |-> "None", exc |-> "none"]
    ELSE [result |-> "-", exc |-> outcome]

----------------------------------------------------------------------------
(* The state after class creation.                                          *)

\* The callers of _get_read_database; none is inside a call.
Threads == {"t1", "t2"}

Idle == [pc |-> "idle", cls |-> "-", current_idx |-> 0]

NoFrames == [t \in Threads |-> Idle]

\* No Choices object has been built.
NoRegistry == [args |-> <<>>, _choices |-> <<>>, _reversed |-> <<>>]

\* cls.<sig>.receivers
ReceiversOf(cls, sig) == receivers[SignalOf(cls, sig)[1]][SignalOf(cls, sig)[2]]

\* The receivers of the four signals of cls.
SignalsOf(cls) == [s \in SignalNames |-> ReceiversOf(cls, s)]

TotalReceivers ==
    LET n(c) == Len(receivers[c]["pre_save"]) + Len(receivers[c]["post_save"])
                + Len(receivers[c]["pre_delete"]) + Len(receivers[c]["post_delete"])
    IN  n("Parent") + n("Child")

\* Signals and lifecycle: every class has its four empty signals; instances
\* start with any primary-key value.
Init ==
    /\ receivers = [c \in Classes |-> NewSignals]
    /\ pk \in [Instances -> PkValues]
    /\ persisted = [i \in Instances |-> FALSE]
    /\ read_slaves = [c \in Classes |-> NormalizeReadSlaves(Absent)]
    /\ read_slave_idx = [c \in Classes |-> <<>>]
    /\ reads = [c \in Classes |-> <<>>]
    /\ frames = NoFrames
    /\ registry = NoRegistry
    /\ last = Call("init")

\* Read dispatch: every class has declared some read_slaves, or none.
InitRead ==
    /\ receivers = [c \in Classes |-> NewSignals]
    /\ pk = [i \in Instances |-> NoPk]
    /\ persisted = [i \in Instances |-> FALSE]
    /\ \E declared \in [Classes -> Declarations] :
           read_slaves = [c \in Classes |-> NormalizeReadSlaves(declared[c])]
    /\ read_slave_idx = [c \in Classes |-> <<>>]
    /\ reads = [c \in Classes |-> <<>>]
    /\ frames = NoFrames
    /\ registry = NoRegistry
    /\ last = Call("init")

----------------------------------------------------------------------------
(* Actions: one per call a program makes.                                   *)

\* cls.<sig>.connect(x)
ConnectCall(cls, sig, x) ==
    LET r == connect(ReceiversOf(cls, sig), x)
    IN  /\ receivers' = [receivers EXCEPT
                            ![SignalOf(cls, sig)[1]][SignalOf(cls, sig)[2]] = r.receivers]
        /\ last' = [Call("connect") EXCEPT !.cls = cls, !.sig = sig, !.arg = x,
                                           !.exc = r.exc]
        /\ UNCHANGED <<pk, persisted, read_slaves, read_slave_idx, reads, frames, registry>>

\* cls.<sig>.connect(x), while there is room for another receiver.
Connect(cls, sig, x) ==
    /\ callable(x) => TotalReceivers < MaxReceivers
    /\ ConnectCall(cls, sig, x)

\* cls.<sig>.disconnect(x)
Disconnect(cls, sig, x) ==
    LET r == disconnect(ReceiversOf(cls, sig), x)
    IN  /\ receivers' = [receivers EXCEPT
                            ![SignalOf(cls, sig)[1]][SignalOf(cls, sig)[2]] = r.receivers]
        /\ last' = [Call("disconnect") EXCEPT !.cls = cls, !.sig = sig, !.arg = x,
                                              !.exc = r.exc]
        /\ UNCHANGED <<pk, persisted, read_slaves, read_slave_idx, reads, frames, registry>>

\* cls.<sig>.send(inst, created=flag) or cls.<sig>.send(inst)
Send(cls, sig, inst, ctx) ==
    LET r == send(ReceiversOf(cls, sig), sig, inst, ctx)
    IN  /\ last' = [Call("send") EXCEPT !.cls = cls, !.sig = sig, !.arg = inst,
                                        !.created = ctx, !.trace = r.trace,
                                        !.exc = IF r.raised THEN "ReceiverError"
                                                ELSE "none"]
        /\ UNCHANGED <<receivers, pk, persisted, read_slaves, read_slave_idx, reads, frames, registry>>

\* inst.save(force_insert=force_insert)
Save(inst, force_insert, base_fails) ==
    LET r == save(SignalsOf(ClassOf(inst)), pk[inst], inst, force_insert, base_fails)
    IN  /\ pk' = [pk EXCEPT ![inst] = r.pk]
        /\ persisted' = [persisted EXCEPT ![inst] = @ \/ r.saved]
        /\ last' = [Call("save") EXCEPT !.cls = ClassOf(inst), !.arg = inst,
                                        !.force = force_insert,
                                        !.again = persisted[inst],
                                        !.created = Created(r.created),
                                        !.trace = r.trace, !.exc = r.exc]
        /\ UNCHANGED <<receivers, read_slaves, read_slave_idx, reads, frames, registry>>

\* inst.delete_instance()
DeleteInstance(inst, base_fails) ==
    LET r == delete_instance(SignalsOf(ClassOf(inst)), inst, base_fails)
    IN  /\ last' = [Call("delete_instance") EXCEPT !.cls = ClassOf(inst),
                                                   !.arg = inst,
                                                   !.trace = r.trace, !.exc = r.exc]
        /\ UNCHANGED <<receivers, pk, persisted, read_slaves, read_slave_idx, reads, frames, registry>>

\* cls.select()
Select(cls) ==
    LET r == select(read_slaves, read_slave_idx, cls)
    IN  /\ Len(reads[cls]) < MaxDispatch
        /\ read_slave_idx' = r.idx
        /\ reads' = [reads EXCEPT ![cls] = Append(@, [db |-> r.db, cur |-> r.cur])]
        /\ last' = [Call("select") EXCEPT !.cls = cls, !.db = r.db, !.cur = r.cur]
        /\ UNCHANGED <<receivers, pk, persisted, read_slaves, frames, registry>>

\* cls.raw(sql)
Raw(cls, sql) ==
    LET r == raw(read_slaves, read_slave_idx, cls, sql)
    IN  /\ r.routed => Len(reads[cls]) < MaxDispatch
        /\ read_slave_idx' = r.idx
        /\ reads' = IF r.routed
                    THEN [reads EXCEPT ![cls] = Append(@, [db |-> r.db, cur |-> r.cur])]
                    ELSE reads
        /\ last' = [Call("raw") EXCEPT !.cls = cls, !.sql = sql, !.db = r.db,
                                       !.cur = r.cur]
        /\ UNCHANGED <<receivers, pk, persisted, read_slaves, frames, registry>>

Next ==
    \/ \E inst \in Instances, sig \in SignalNames, x \in Objects :
          Connect(ClassOf(inst), sig, x)
    \/ \E inst \in Instances, sig \in SignalNames, x \in Objects :
          Disconnect(ClassOf(inst), sig, x)
    \/ \E inst \in Instances, sig \in SignalNames, ctx \in {NoCtx, Created(TRUE)} :
          Send(ClassOf(inst), sig, inst, ctx)
    \/ \E inst \in Instances, force_insert \in BOOLEAN, base_fails \in BOOLEAN :
          Save(inst, force_insert, base_fails)
    \/ \E inst \in Instances, base_fails \in BOOLEAN : DeleteInstance(inst, base_fails)

Spec == Init /\ [][Next]_vars

NextRead ==
    \/ \E cls \in Classes : Select(cls)
    \/ \E cls \in Classes, sql \in SqlTexts : Raw(cls, sql)

SpecRead == InitRead /\ [][NextRead]_vars

\* cls.get_or_none(): the host ORM's get builds its query with cls.select(),
\* which is a read dispatch, and then finds the row or raises.
GetOrNone(cls, outcome) ==
    LET q == select(read_slaves, read_slave_idx, cls)
        r == get_or_none(cls, outcome)
    IN  /\ Len(reads[cls]) < MaxDispatch
        /\ read_slave_idx' = q.idx
        /\ reads' = [reads EXCEPT ![cls] = Append(@, [db |-> q.db, cur |-> q.cur])]
        /\ last' = [Call("get_or_none") EXCEPT !.cls = cls, !.arg = outcome,
                                               !.db = q.db, !.cur = q.cur,
                                               !.result = r.result, !.exc = r.exc]
        /\ UNCHANGED <<receivers, pk, persisted, read_slaves, frames, registry>>

NextGet ==
    \/ \E cls \in Classes : Select(cls)
    \/ \E cls \in Classes, outcome \in GetOutcomes : GetOrNone(cls, outcome)

SpecGet == InitRead /\ [][NextGet]_vars

\* The calls of _get_read_database begun so far.
Begun ==
    Len(reads["Parent"]) + Len(reads["Child"])
    + Cardinality({t \in Threads : frames[t].pc # "idle"})

\* Thread t calls cls._get_read_database(): line 145, which returns the
\* primary database when there are no replicas.
Enter(t, cls) ==
    /\ frames[t].pc = "idle"
    /\ Begun < MaxCalls
    /\ IF not(read_slaves[cls])
       THEN /\ reads' = [reads EXCEPT ![cls] =
                            Append(@, [db |-> Primary, cur |-> <<>>, at |-> <<>>])]
            /\ last' = [Call("_get_read_database") EXCEPT !.cls = cls, !.db = Primary]
            /\ UNCHANGED frames
       ELSE /\ frames' = [frames EXCEPT ![t] = [pc |-> "147", cls |-> cls,
                                                current_idx |-> 0]]
            /\ UNCHANGED <<reads, last>>
    /\ UNCHANGED <<receivers, pk, persisted, read_slaves, read_slave_idx, registry>>

\* Line 147: current_idx = getattr(cls, '_read_slave_idx', -1)
ReadIdx(t) ==
    /\ frames[t].pc = "147"
    /\ frames' = [frames EXCEPT ![t].pc = "148",
                                ![t].current_idx =
                                    getattr_read_slave_idx(read_slave_idx, frames[t].cls)]
    /\ UNCHANGED <<receivers, pk, persisted, read_slaves, read_slave_idx, reads,
                   registry, last>>

\* Line 148
StoreIdx(t) ==
    /\ frames[t].pc = "148"
    /\ read_slave_idx' = store_idx(read_slaves, read_slave_idx, frames[t].cls,
                                   frames[t].current_idx)
    /\ frames' = [frames EXCEPT ![t].pc = "149"]
    /\ UNCHANGED <<receivers, pk, persisted, read_slaves, reads, registry, last>>

\* Line 149
Return(t) ==
    LET cls == frames[t].cls
        r == return_db(read_slaves, read_slave_idx, cls)
    IN  /\ frames[t].pc = "149"
        /\ reads' = [reads EXCEPT ![cls] =
                        Append(@, [db |-> r.db, cur |-> <<frames[t].current_idx>>,
                                   at |-> r.at])]
        /\ last' = [Call("_get_read_database") EXCEPT
                        !.cls = cls, !.db = r.db, !.cur = <<frames[t].current_idx>>]
        /\ frames' = [frames EXCEPT ![t] = Idle]
        /\ UNCHANGED <<receivers, pk, persisted, read_slaves, read_slave_idx, registry>>

NextConc ==
    \/ \E t \in Threads, cls \in Classes : Enter(t, cls)
    \/ \E t \in Threads : ReadIdx(t)
    \/ \E t \in Threads : StoreIdx(t)
    \/ \E t \in Threads : Return(t)

SpecConc == InitRead /\ [][NextConc]_vars

\* Connect and disconnect on any signal of any class, of one receiver and of
\* one object that is not callable.
NextClasses ==
    \/ \E cls \in Classes, sig \in SignalNames, x \in {"r1", "notfn"} :
          Connect(cls, sig, x)
    \/ \E cls \in Classes, sig \in SignalNames, x \in {"r1", "notfn"} :
          Disconnect(cls, sig, x)

SpecClasses == Init /\ [][NextClasses]_vars

\* cls.<sig>.send(inst) to receivers that may disconnect during delivery.
SendLive(cls, sig, inst, ctx) ==
    LET r == send_live(ReceiversOf(cls, sig), sig, inst, ctx)
    IN  /\ receivers' = [receivers EXCEPT
                            ![SignalOf(cls, sig)[1]][SignalOf(cls, sig)[2]] = r.receivers]
        /\ last' = [Call("send") EXCEPT !.cls = cls, !.sig = sig, !.arg = inst,
                                        !.created = ctx, !.trace = r.trace,
                                        !.exc = IF r.raised THEN "ReceiverError"
                                                ELSE "none"]
        /\ UNCHANGED <<pk, persisted, read_slaves, read_slave_idx, reads, frames,
                       registry>>

\* One signal, pre_save of the instance's class, with up to MaxLen receivers,
\* some of which disconnect when they are invoked.
NextReentrant ==
    \/ \E inst \in Instances, x \in {"r1", "r2"} \cup Reentrant :
          /\ Len(receivers[ClassOf(inst)]["pre_save"]) < MaxLen
          /\ ConnectCall(ClassOf(inst), "pre_save", x)
    \/ \E inst \in Instances, x \in {"r1", "r2"} \cup Reentrant :
          Disconnect(ClassOf(inst), "pre_save", x)
    \/ \E inst \in Instances : SendLive(ClassOf(inst), "pre_save", inst, NoCtx)

SpecReentrant == Init /\ [][NextReentrant]_vars

\* Choices(*args) has been called with up to MaxChoices arguments.
RECURSIVE ArgLists(_)
ArgLists(n) ==
    IF n = 0 THEN {<<>>}
    ELSE ArgLists(n - 1)
         \cup {Append(args, c) : args \in {a \in ArgLists(n - 1) : Len(a) = n - 1},
                                 c \in ChoiceArgs}

InitChoices ==
    /\ receivers = [c \in Classes |-> NewSignals]
    /\ pk = [i \in Instances |-> NoPk]
    /\ persisted = [i \in Instances |-> FALSE]
    /\ read_slaves = [c \in Classes |-> NormalizeReadSlaves(Absent)]
    /\ read_slave_idx = [c \in Classes |-> <<>>]
    /\ reads = [c \in Classes |-> <<>>]
    /\ frames = NoFrames
    /\ \E args \in ArgLists(MaxChoices) :
           registry = [args |-> args, _choices |-> __init__(args)._choices,
                       _reversed |-> __init__(args)._reversed]
    /\ last = Call("init")

\* registry.<name>
GetAttr(name) ==
    /\ last' = [Call("getattr") EXCEPT !.arg = name, !.result = getattr(registry, name)]
    /\ UNCHANGED <<receivers, pk, persisted, read_slaves, read_slave_idx, reads,
                   frames, registry>>

\* list(registry)
Iter ==
    /\ last' = [Call("iter") EXCEPT !.result = __iter__(registry)]
    /\ UNCHANGED <<receivers, pk, persisted, read_slaves, read_slave_idx, reads,
                   frames, registry>>

NextChoices ==
    \/ \E name \in Names : GetAttr(name)
    \/ Iter

SpecChoices == InitChoices /\ [][NextChoices]_vars

\* One signal, pre_save of the instance's class, with up to MaxLen receivers.
NextSignal ==
    \/ \E inst \in Instances, x \in Objects :
          /\ callable(x) => Len(receivers[ClassOf(inst)]["pre_save"]) < MaxLen
          /\ ConnectCall(ClassOf(inst), "pre_save", x)
    \/ \E inst \in Instances, x \in Objects : Disconnect(ClassOf(inst), "pre_save", x)
    \/ \E inst \in Instances, ctx \in {NoCtx, Created(TRUE)} :
          Send(ClassOf(inst), "pre_save", inst, ctx)

SpecSignal == Init /\ [][NextSignal]_vars

----------------------------------------------------------------------------
(* Properties.                                                              *)

\* The receiver invocations of a trace, in order.
Calls(trace) == SelectSeq(trace, LAMBDA e : e.kind = "call")

\* The places of a trace where signal sig was fired, and where a base ORM
\* operation was attempted.
Fired(trace, sig) ==
    {i \in 1..Len(trace) : trace[i].kind = "fire" /\ trace[i].sig = sig}

Attempted(trace, kind) == {i \in 1..Len(trace) : trace[i].kind = kind}

\* A receiver of signal sig raised; the base ORM operation raised.
ReceiverRaised(trace, sig) ==
    \E i \in 1..Len(trace) : trace[i].kind = "raise" /\ trace[i].sig = sig

OrmRaised(trace) ==
    \E i \in 1..Len(trace) : trace[i].kind = "raise" /\ trace[i].who = "orm"

\* Signal sig was neither fired nor delivered to any receiver.
Silent(trace, sig) == \A i \in 1..Len(trace) : trace[i].sig # sig

\* Every signal event of the trace carries the context ctx.
AllCarry(trace, ctx) ==
    \A i \in 1..Len(trace) : trace[i].kind \in {"fire", "call"} => trace[i].ctx = ctx

\* Bound primary keys that Python counts as false.
FalsyKeys == {<<"int", 0>>, <<"str", "">>}

\* C1: a send in which no receiver raises invokes exactly the receivers list
\* as it stood when the send began, in list order, each entry once with the
\* sent instance and context; and connect appends to that list, so the list
\* order is the registration order and a receiver connected twice is in it,
\* and invoked, twice.
C1_SendInRegistrationOrder ==
    [][ /\ (last'.op = "connect" /\ last'.exc = "none") =>
              receivers'[last'.cls][last'.sig] =
                  Append(receivers[last'.cls][last'.sig], last'.arg)
        /\ (last'.op = "send" /\ last'.exc = "none") =>
              LET list == receivers[last'.cls][last'.sig]
              IN  /\ Len(Calls(last'.trace)) = Len(list)
                  /\ \A i \in 1..Len(list) :
                        Calls(last'.trace)[i] =
                            Ev("call", last'.sig, list[i], last'.arg, last'.created)
      ]_vars

\* A send has just delivered to two different receivers.
C1_Witness ==
    /\ last.op = "send" /\ last.exc = "none"
    /\ Len(Calls(last.trace)) = 2
    /\ Calls(last.trace)[1].who # Calls(last.trace)[2].who
    /\ last.created = Created(TRUE)

\* C2: a save fires pre_save once and first; one that returns normally has
\* then attempted the base save once and after it fired post_save once, in
\* that order; pre_save receivers run before the base save and post_save
\* receivers after it; and every signal event of the save carries the one
\* created value that pre_save was fired with.
C2_SaveFiresPreBasePost ==
    last.op = "save" =>
        LET t == last.trace
            pre == Fired(t, "pre_save")
            base == Attempted(t, "base_save")
            post == Fired(t, "post_save")
        IN  /\ pre = {1}
            /\ Cardinality(base) <= 1 /\ Cardinality(post) <= 1
            /\ last.exc = "none" => Cardinality(base) = 1 /\ Cardinality(post) = 1
            /\ post # {} => base # {}
            /\ \A j \in base, k \in post : j < k
            /\ \A i \in 1..Len(t) :
                  t[i].kind = "call" =>
                      /\ t[i].sig = "pre_save" => \A j \in base : i < j
                      /\ t[i].sig = "post_save" => \E k \in post : k < i
                      /\ t[i].sig \in {"pre_save", "post_save"}
                      /\ t[i].inst = last.arg
            /\ Len(t[1].ctx) = 1
            /\ AllCarry(t, t[1].ctx)

\* A save of an instance without a key has returned normally: the base save
\* bound the key, and receivers of both signals were told created=True.
C2_Witness ==
    /\ last.op = "save" /\ last.exc = "none" /\ ~last.force
    /\ pk[last.arg] # NoPk
    /\ \E i, j \in 1..Len(last.trace) :
          /\ last.trace[i].kind = "call" /\ last.trace[i].sig = "pre_save"
          /\ last.trace[j].kind = "call" /\ last.trace[j].sig = "post_save"
          /\ last.trace[j].ctx = Created(TRUE)

\* C3: the created flag a save passes to its signals is true exactly when
\* the caller forced an insert or the instance had no bound primary key.
C3_CreatedIffForcedOrUnbound ==
    [][ last'.op = "save" =>
            AllCarry(last'.trace, Created(last'.force \/ pk[last'.arg] = NoPk))
      ]_vars

\* An instance goes from no key to a bound key only in a save whose base
\* save succeeds for the first time, and a bound key is never unbound.
UnsavedToSavedOnce ==
    \A inst \in Instances :
        /\ pk[inst] # NoPk => pk'[inst] # NoPk
        /\ (pk[inst] = NoPk /\ pk'[inst] # NoPk) =>
              /\ last'.op = "save" /\ last'.arg = inst
              /\ ~persisted[inst] /\ persisted'[inst]
        /\ persisted'[inst] => pk'[inst] # NoPk

\* C4, as claimed: the change from unsaved to saved happens once, at the
\* first successful save, and every later save fires its signals with
\* created=False whatever its arguments.
C4_LaterSavesNotCreated ==
    [][ /\ UnsavedToSavedOnce
        /\ \A inst \in Instances :
              (persisted[inst] /\ last'.op = "save" /\ last'.arg = inst) =>
                  AllCarry(last'.trace, Created(FALSE))
      ]_vars

\* C4, amended: the change from unsaved to saved happens once, at the first
\* save whose base save succeeds, and every later save fires its signals
\* with created=True when it is called with force_insert or the bound key is
\* one Python counts as false, and with created=False otherwise.
C4_LaterSavesCreatedOnlyIfForcedOrFalsy ==
    [][ /\ UnsavedToSavedOnce
        /\ \A inst \in Instances :
              (persisted[inst] /\ last'.op = "save" /\ last'.arg = inst) =>
                  AllCarry(last'.trace,
                           Created(last'.force \/ pk[inst] \in FalsyKeys))
      ]_vars

\* An instance saved before has been saved again with force_insert, and a
\* receiver was told created=True.
C4_Witness ==
    /\ last.op = "save" /\ last.again /\ last.force
    /\ pk[last.arg] = AssignedPk
    /\ \E i \in 1..Len(last.trace) :
          last.trace[i].kind = "call" /\ last.trace[i].ctx = Created(TRUE)

\* C5: when a pre_save receiver raises, the base save is not attempted and
\* post_save is not fired; when the base save raises, post_save is not
\* fired; either way save ends with the exception.
C5_SaveFailFast ==
    last.op = "save" =>
        /\ ReceiverRaised(last.trace, "pre_save") =>
              /\ Attempted(last.trace, "base_save") = {}
              /\ Silent(last.trace, "post_save")
              /\ last.exc = "ReceiverError"
        /\ OrmRaised(last.trace) =>
              /\ Silent(last.trace, "post_save")
              /\ last.exc = "OrmError"

\* A pre_save receiver raised in a save while post_save had a receiver.
C5_Witness ==
    /\ last.op = "save"
    /\ ReceiverRaised(last.trace, "pre_save")
    /\ receivers[last.cls]["post_save"] # <<>>

\* C6: delete_instance fires pre_delete once and first; one that returns
\* normally has then attempted the base delete once and after it fired
\* post_delete once; a pre_delete receiver that raises stops the base delete,
\* and a base delete that raises stops post_delete.
C6_DeleteFiresPreBasePost ==
    last.op = "delete_instance" =>
        LET t == last.trace
            pre == Fired(t, "pre_delete")
            base == Attempted(t, "base_delete")
            post == Fired(t, "post_delete")
        IN  /\ pre = {1}
            /\ Cardinality(base) <= 1 /\ Cardinality(post) <= 1
            /\ last.exc = "none" => Cardinality(base) = 1 /\ Cardinality(post) = 1
            /\ post # {} => base # {}
            /\ \A j \in base, k \in post : j < k
            /\ \A i \in 1..Len(t) :
                  t[i].kind = "call" =>
                      /\ t[i].sig = "pre_delete" => \A j \in base : i < j
                      /\ t[i].sig = "post_delete" => \E k \in post : k < i
                      /\ t[i].sig \in {"pre_delete", "post_delete"}
            /\ AllCarry(t, NoCtx)
            /\ ReceiverRaised(t, "pre_delete") =>
                  base = {} /\ Silent(t, "post_delete") /\ last.exc = "ReceiverError"
            /\ OrmRaised(t) => Silent(t, "post_delete") /\ last.exc = "OrmError"

\* A delete_instance has returned normally after invoking a receiver of
\* pre_delete and one of post_delete.
C6_Witness ==
    /\ last.op = "delete_instance" /\ last.exc = "none"
    /\ \E i, j \in 1..Len(last.trace) :
          /\ last.trace[i].kind = "call" /\ last.trace[i].sig = "pre_delete"
          /\ last.trace[j].kind = "call" /\ last.trace[j].sig = "post_delete"

\* The replicas configured on a class, <<>> when there are none.
Replicas(cls) == IF read_slaves[cls][1] = "list" THEN read_slaves[cls][2] ELSE <<>>

\* C7: on a class with n >= 1 replicas whose first read dispatch found the
\* cursor at its default, the k-th dispatch returns the replica at position
\* (k-1) mod n, and any n consecutive dispatches return each replica once.
C7_RoundRobin ==
    \A cls \in Classes :
        LET list == Replicas(cls)
            n == Len(list)
            log == reads[cls]
        IN  (n >= 1 /\ log # <<>> /\ log[1].cur = <<DefaultIdx>>) =>
                /\ \A k \in 1..Len(log) : log[k].db = list[((k - 1) % n) + 1]
                /\ \A j \in 1..Len(log) :
                      j + n - 1 <= Len(log) =>
                          \A p \in 1..n :
                              Cardinality({i \in j..(j + n - 1) : log[i].db = list[p]}) = 1

\* Four dispatches on a class with replicas A, B, C returned A, B, C, A.
C7_Witness ==
    \E cls \in Classes :
        /\ Replicas(cls) = <<"A", "B", "C">>
        /\ Len(reads[cls]) = 4
        /\ reads[cls][1].cur = <<DefaultIdx>>
        /\ [k \in 1..4 |-> reads[cls][k].db] = <<"A", "B", "C", "A">>

\* C8: a class with no replicas, none declared or an empty list, never has
\* a cursor of its own, and every read dispatch on it returns the primary
\* database and leaves every cursor as it was.
C8_NoReplicasPrimary ==
    [][ \A cls \in Classes :
            Replicas(cls) = <<>> =>
                /\ read_slave_idx[cls] = <<>> /\ read_slave_idx'[cls] = <<>>
                /\ (last'.op \in {"select", "raw"} /\ last'.cls = cls) =>
                      /\ last'.db = Primary
                      /\ read_slave_idx' = read_slave_idx
      ]_vars

\* A second select on a class that declared an empty replica list returned
\* the primary database, after its base class had rotated its own replicas.
C8_Witness ==
    /\ last.op = "select" /\ last.cls = "Child" /\ last.db = Primary
    /\ read_slaves["Child"] = ListOf(<<>>)
    /\ Len(reads["Child"]) = 2
    /\ read_slave_idx["Parent"] # <<>>
    /\ read_slave_idx["Child"] = <<>>

\* The text begins with the letters of "select", each in either case.
BeginsWithSelect(sql) ==
    /\ Len(sql) >= 6
    /\ sql[1] \in {"s", "S"} /\ sql[2] \in {"e", "E"} /\ sql[3] \in {"l", "L"}
    /\ sql[4] \in {"e", "E"} /\ sql[5] \in {"c", "C"} /\ sql[6] \in {"t", "T"}

\* C9: a raw query whose text begins with "select" in any case gets the
\* database select() would get from the same state and moves the class's
\* cursor as select() would: with n replicas, to one past the value read,
\* modulo n, the replica at that position being the query's database. Any
\* other raw query keeps the primary database and leaves every cursor alone.
C9_RawSelectRouted ==
    [][ last'.op = "raw" =>
            LET cls == last'.cls
                list == Replicas(cls)
            IN  IF BeginsWithSelect(last'.sql)
                THEN /\ last'.db = select(read_slaves, read_slave_idx, cls).db
                     /\ read_slave_idx' = select(read_slaves, read_slave_idx, cls).idx
                     /\ reads'[cls] = Append(reads[cls], [db |-> last'.db, cur |-> last'.cur])
                     /\ list # <<>> =>
                           /\ read_slave_idx'[cls] =
                                  <<(getattr_read_slave_idx(read_slave_idx, cls) + 1)
                                        % Len(list)>>
                           /\ last'.db = list[read_slave_idx'[cls][1] + 1]
                ELSE /\ last'.db = Primary
                     /\ read_slave_idx' = read_slave_idx
                     /\ reads' = reads
      ]_vars

\* A raw query written "SeLeCt 1" moved the cursor from 0 to 1 and was bound
\* to the second replica.
C9_Witness ==
    /\ last.op = "raw"
    /\ last.sql = <<"S", "e", "L", "e", "C", "t", " ", "1">>
    /\ last.cur = <<0>>
    /\ read_slave_idx[last.cls] = <<1>>
    /\ last.db = "B"

\* C10: connect with an argument that is not callable raises and leaves
\* every receivers list as it was, and so does disconnect of a receiver that
\* is not in the signal's list.
C10_RejectedChangesNothing ==
    [][ /\ (last'.op = "connect" /\ last'.arg \notin {"r1", "r2", "boom"}) =>
              last'.exc = "ValueError" /\ receivers' = receivers
        /\ (last'.op = "disconnect"
            /\ \A i \in 1..Len(receivers[last'.cls][last'.sig]) :
                  receivers[last'.cls][last'.sig][i] # last'.arg) =>
              last'.exc = "ValueError" /\ receivers' = receivers
      ]_vars

\* connect was refused a non-callable on a signal that has a receiver.
C10_Witness ==
    /\ last.op = "connect" /\ last.arg = "notfn" /\ last.exc = "ValueError"
    /\ receivers[last.cls][last.sig] # <<>>

\* How many entries of the list are x, and how many invocations of a trace
\* are invocations of x.
Count(list, x) == Cardinality({i \in 1..Len(list) : list[i] = x})

Times(trace, x) ==
    Cardinality({i \in 1..Len(trace) : trace[i].kind = "call" /\ trace[i].who = x})

\* C11: a disconnect that succeeds takes the first occurrence of the receiver
\* out of the list and keeps every other entry, later duplicates included,
\* in its order; a send that follows and runs to its end invokes the
\* receiver once fewer than it was registered, and once fewer than a send
\* before the disconnect did.
C11_DisconnectRemovesFirst ==
    [][ (last'.op = "disconnect" /\ last'.exc = "none") =>
            LET list == receivers[last'.cls][last'.sig]
                new == receivers'[last'.cls][last'.sig]
                x == last'.arg
                before == send(list, last'.sig, "a", NoCtx)
                after == send(new, last'.sig, "a", NoCtx)
            IN  /\ \E i \in 1..Len(list) :
                      /\ list[i] = x
                      /\ \A j \in 1..(i - 1) : list[j] # x
                      /\ new = SubSeq(list, 1, i - 1) \o SubSeq(list, i + 1, Len(list))
                /\ ~after.raised =>
                      /\ Times(after.trace, x) = Count(list, x) - 1
                      /\ ~before.raised =>
                            Times(after.trace, x) = Times(before.trace, x) - 1
      ]_vars

\* r1 was disconnected from a list that held it twice around r2: its second
\* registration is still there, after r2.
C11_Witness ==
    /\ last.op = "disconnect" /\ last.exc = "none" /\ last.arg = "r1"
    /\ receivers[last.cls][last.sig] = <<"r2", "r1">>

\* C12: a send in which a receiver raises ends with that exception at once:
\* the receivers before the first raising one were each invoked once, in
\* order, then the raising one, and none after it; the receivers list is as
\* it was. A send over a list holding a raising receiver always ends so.
C12_RaiseAbortsDelivery ==
    [][ last'.op = "send" =>
            LET list == receivers[last'.cls][last'.sig]
                t == last'.trace
            IN  /\ Count(list, "boom") > 0 => last'.exc = "ReceiverError"
                /\ last'.exc # "none" =>
                      /\ receivers' = receivers
                      /\ \E k \in 1..Len(list) :
                            /\ list[k] = "boom"
                            /\ \A j \in 1..(k - 1) : list[j] # "boom"
                            /\ Len(Calls(t)) = k
                            /\ \A i \in 1..k :
                                  Calls(t)[i] = Ev("call", last'.sig, list[i],
                                                   last'.arg, last'.created)
                            /\ t[Len(t)] = Ev("raise", last'.sig, "boom",
                                              last'.arg, last'.created)
      ]_vars

\* A send over r1, boom, r2 ended with boom's exception after invoking r1
\* and boom, and r2 was not invoked.
C12_Witness ==
    /\ last.op = "send" /\ last.exc = "ReceiverError"
    /\ receivers[last.cls][last.sig] = <<"r1", "boom", "r2">>
    /\ Times(last.trace, "r1") = 1 /\ Times(last.trace, "r2") = 0

\* C13: get_or_none returns the row when get finds it, returns None when get
\* raises the row-not-found error of the class it was called on, and ends
\* with get's error, unchanged, when get raises anything else, another
\* class's row-not-found error included.
C13_GetOrNone ==
    last.op = "get_or_none" =>
        LET own == \/ last.cls = "Child" /\ last.arg = "ChildDoesNotExist"
                   \/ last.cls = "Parent" /\ last.arg = "ParentDoesNotExist"
        IN  /\ last.arg = "row" => last.result = "row" /\ last.exc = "none"
            /\ own => last.result = "None" /\ last.exc = "none"
            /\ (last.arg # "row" /\ ~own) =>
                  last.exc = last.arg /\ last.result \notin {"row", "None"}

\* get_or_none on Child returned None for Child's row-not-found error.
C13_Witness ==
    /\ last.op = "get_or_none" /\ last.cls = "Child"
    /\ last.arg = "ChildDoesNotExist"
    /\ last.result = "None" /\ last.exc = "none"

\* The stored value and the display label of the i-th argument.
ValueOf(arg) == IF arg[1] = "pair" THEN arg[2] ELSE arg

LabelOf(arg) == IF arg[1] = "pair" THEN arg[3] ELSE arg

\* The places of the arguments whose label, as a string, is name.
Labelled(args, name) == {i \in 1..Len(args) : str(LabelOf(args[i])) = name}

\* C14, as claimed: looking up the label of any choice yields that choice's
\* stored value, and looking up a name that is no choice's label yields None.
C14_LookupYieldsStoredValue ==
    last.op = "getattr" =>
        /\ \A i \in Labelled(registry.args, last.arg) :
              last.result = ValueOf(registry.args[i])
        /\ Labelled(registry.args, last.arg) = {} => last.result = <<"none">>

\* C14, amended: looking up a name that is not an attribute the object has
\* anyway yields the stored value of the last choice whose label, as a
\* string, is that name, and None when no choice has that label; a name the
\* object has as an attribute yields that attribute.
C14_LookupYieldsLastStoredValue ==
    last.op = "getattr" =>
        LET at == Labelled(registry.args, last.arg)
        IN  IF last.arg \in {"_choices", "_reversed", "__iter__"}
            THEN last.result = <<"attribute", last.arg>>
            ELSE IF at = {}
            THEN last.result = <<"none">>
            ELSE \E i \in at : /\ \A j \in at : j <= i
                               /\ last.result = ValueOf(registry.args[i])

\* The label "a" was looked up after two choices were given that label, and
\* the second one's value came back.
C14_Witness ==
    /\ last.op = "getattr" /\ last.arg = "a"
    /\ registry.args = <<Pair(PyStr("x"), PyStr("a")), Pair(PyStr("y"), PyStr("a"))>>
    /\ last.result = PyStr("y")

\* C15: iterating yields the arguments in the order given, a bare string s
\* as the pair (s, s), every time it is done, and the stored list stays what
\* construction made it.
C15_IterYieldsArguments ==
    LET given == [i \in 1..Len(registry.args) |->
                     IF registry.args[i][1] = "pair" THEN registry.args[i]
                     ELSE <<"pair", registry.args[i], registry.args[i]>>]
    IN  /\ Len(registry._choices) = Len(given)
        /\ \A i \in 1..Len(given) : registry._choices[i] = given[i]
        /\ last.op = "iter" =>
              /\ Len(last.result) = Len(given)
              /\ \A i \in 1..Len(given) : last.result[i] = given[i]

\* An iteration over a bare string and a pair yielded two pairs in order.
C15_Witness ==
    /\ last.op = "iter"
    /\ registry.args = <<PyStr("b"), Pair(PyStr("x"), PyStr("a"))>>
    /\ last.result = <<Pair(PyStr("b"), PyStr("b")), Pair(PyStr("x"), PyStr("a"))>>

\* C16: on every class with replicas the first read dispatch finds the
\* cursor at its default and returns the class's first replica, whatever
\* dispatches other classes, its parent among them, have made before.
C16_FirstDispatchReturnsFirstReplica ==
    \A cls \in Classes :
        (Len(Replicas(cls)) >= 1 /\ reads[cls] # <<>>) =>
            /\ reads[cls][1].cur = <<DefaultIdx>>
            /\ reads[cls][1].db = Replicas(cls)[1]

\* C17: nothing holds the cursor between the lines of a read dispatch: a
\* caller writes the successor of the value it read itself, whatever has
\* been written since, and returns the replica at the cursor as it stands
\* when it returns, whoever wrote it.
C17_DispatchNotAtomic ==
    [][ \A t \in Threads :
            LET cls == frames[t].cls
                n == Len(Replicas(cls))
            IN  /\ (frames[t].pc = "148" /\ frames'[t].pc = "149") =>
                      read_slave_idx'[cls] = <<(frames[t].current_idx + 1) % n>>
                /\ (frames[t].pc = "149" /\ frames'[t].pc = "idle") =>
                      /\ read_slave_idx[cls] # <<>>
                      /\ last'.db = Replicas(cls)[read_slave_idx[cls][1] + 1]
      ]_vars

\* Two callers on a class with replicas A and B both read the default
\* cursor and both got A: A was repeated and B skipped.
C17_Witness ==
    \E cls \in Classes :
        /\ Replicas(cls) = <<"A", "B">>
        /\ Len(reads[cls]) = 2
        /\ reads[cls][1] = [db |-> "A", cur |-> <<DefaultIdx>>, at |-> <<0>>]
        /\ reads[cls][2] = [db |-> "A", cur |-> <<DefaultIdx>>, at |-> <<0>>]

\* C19: on a class with n >= 1 replicas the class's cursor, once set, is
\* within 0..n-1, and every dispatch made so far, however the callers
\* interleaved, took a replica of the class's list at an index within 0..n-1.
C19_CursorAndReplicaInRange ==
    \A cls \in Classes :
        LET list == Replicas(cls)
            n == Len(list)
        IN  n >= 1 =>
                /\ read_slave_idx[cls] # <<>> => read_slave_idx[cls][1] \in 0..(n - 1)
                /\ \A k \in 1..Len(reads[cls]) :
                      /\ reads[cls][k].at # <<>>
                      /\ reads[cls][k].at[1] \in 0..(n - 1)
                      /\ \E p \in 1..n : reads[cls][k].db = list[p]

\* A class with one replica made its first dispatch after reading the
\* cursor 1 its parent had reached over two replicas, and came out at 0.
C19_Witness ==
    /\ Replicas("Parent") = <<"A", "B">>
    /\ Replicas("Child") = <<"A">>
    /\ Len(reads["Child"]) = 1
    /\ reads["Child"][1] = [db |-> "A", cur |-> <<1>>, at |-> <<0>>]
    /\ read_slave_idx["Child"] = <<0>>

\* C18: every class starts with four empty receivers lists, and a connect
\* or disconnect on one signal of one class leaves the receivers list of
\* every other signal as it was: the class's other three, and all four of
\* its parent and of its subclass.
C18_ConnectTouchesOneSignal ==
    [][ last'.op \in {"connect", "disconnect"} =>
            \A c \in Classes, s \in SignalNames :
                <<c, s>> # <<last'.cls, last'.sig>> =>
                    receivers'[c][s] = receivers[c][s]
      ]_vars

\* r1 was connected to pre_save of both classes and then disconnected from
\* the parent's: the subclass still has it.
C18_Witness ==
    /\ last.op = "disconnect" /\ last.cls = "Parent" /\ last.sig = "pre_save"
    /\ last.arg = "r1" /\ last.exc = "none"
    /\ receivers["Parent"]["pre_save"] = <<>>
    /\ receivers["Child"]["pre_save"] = <<"r1">>

\* C20: a send in which no receiver raises invokes every receiver that was
\* registered when it began once for each time it was registered, also when
\* receivers disconnect themselves or earlier receivers during delivery.
C20_SendReachesAllRegisteredAtStart ==
    [][ (last'.op = "send" /\ last'.exc = "none") =>
            \A x \in {"r1", "r2", "quit", "evict"} :
                Times(last'.trace, x) = Count(receivers[last'.cls][last'.sig], x)
      ]_vars

====
